---- MODULE Spec2Model ----
(***************************************************************************)
(* Model of the satellite tracking API of src/Task3/api3.py: the orbit and *)
(* satellite stores, their create/update/delete handlers, the single       *)
(* position query and the collision scan with its time grid.               *)
(*                                                                         *)
(* Time.  A datetime is kept as its offset from the Unix epoch and, like   *)
(* a Python timedelta, as a record [days, seconds, microseconds].  The     *)
(* handlers convert datetimes to IEEE-754 doubles and back; doubles are    *)
(* modelled exactly, with a 53 bit mantissa held as a little-endian bit    *)
(* sequence and a binary exponent: value = m * 2^e.                        *)
(***************************************************************************)
EXTENDS Integers, Sequences, FiniteSets, TLC

(***************************************************************************)
(* Naturals of arbitrary size as little-endian bit sequences.              *)
(***************************************************************************)
RECURSIVE NatBits(_)
NatBits(n) == IF n = 0 THEN << >> ELSE << n % 2 >> \o NatBits(n \div 2)

RECURSIVE BitsNat(_)
BitsNat(b) == IF b = << >> THEN 0 ELSE b[1] + 2 * BitsNat(Tail(b))

Bit(a, i) == IF i <= Len(a) THEN a[i] ELSE 0

\* drop the leading (most significant) zero bits
BitNorm(b) ==
  LET ones == {i \in 1..Len(b) : b[i] = 1}
  IN  IF ones = {} THEN << >>
      ELSE SubSeq(b, 1, CHOOSE i \in ones : \A j \in ones : j <= i)

\* bits lo..hi of a + b + carry-in c, by halves: [s, c]
RECURSIVE BitAddRange(_, _, _, _, _)
BitAddRange(a, b, lo, hi, c) ==
  IF lo = hi
  THEN LET x == Bit(a, lo) + Bit(b, lo) + c
       IN  [s |-> << x % 2 >>, c |-> x \div 2]
  ELSE LET mid == (lo + hi) \div 2
           l   == BitAddRange(a, b, lo, mid, c)
           h   == BitAddRange(a, b, mid + 1, hi, l.c)
       IN  [s |-> l.s \o h.s, c |-> h.c]

BitAdd(a, b) ==
  LET n == IF Len(a) > Len(b) THEN Len(a) ELSE Len(b)
      r == BitAddRange(a, b, 1, n, 0)
  IN  IF n = 0 THEN << >> ELSE BitNorm(r.s \o << r.c >>)

\* a >= b, both without leading zero bits
BitGeq(a, b) ==
  IF Len(a) # Len(b) THEN Len(a) > Len(b)
  ELSE \/ a = b
       \/ \E i \in 1..Len(a) :
            /\ a[i] > b[i]
            /\ \A j \in (i + 1)..Len(a) : a[j] = b[j]

\* bits lo..hi of a - b - borrow-in w, by halves: [s, w]
RECURSIVE BitSubRange(_, _, _, _, _)
BitSubRange(a, b, lo, hi, w) ==
  IF lo = hi
  THEN LET x == Bit(a, lo) - Bit(b, lo) - w
       IN  [s |-> << x % 2 >>, w |-> IF x < 0 THEN 1 ELSE 0]
  ELSE LET mid == (lo + hi) \div 2
           l   == BitSubRange(a, b, lo, mid, w)
           h   == BitSubRange(a, b, mid + 1, hi, l.w)
       IN  [s |-> l.s \o h.s, w |-> h.w]

\* a - b for a >= b
BitSub(a, b) ==
  IF a = << >> THEN << >> ELSE BitNorm(BitSubRange(a, b, 1, Len(a), 0).s)

BitShl(a, s) == IF a = << >> THEN << >> ELSE [i \in 1..s |-> 0] \o a

BitShr(a, s) == IF s >= Len(a) THEN << >> ELSE SubSeq(a, s + 1, Len(a))

\* a times bits lo..hi of b (weighted), by halves
RECURSIVE BitMulRange(_, _, _, _)
BitMulRange(a, b, lo, hi) ==
  IF lo = hi
  THEN (IF b[lo] = 1 THEN BitShl(a, lo - 1) ELSE << >>)
  ELSE LET mid == (lo + hi) \div 2
       IN  BitAdd(BitMulRange(a, b, lo, mid), BitMulRange(a, b, mid + 1, hi))

BitMul(a, b) ==
  IF a = << >> \/ b = << >> THEN << >> ELSE BitMulRange(a, b, 1, Len(b))

\* schoolbook division over bits hi down to lo of a, entering with the
\* remainder r, by halves: [q, r]
RECURSIVE BitDivRange(_, _, _, _, _)
BitDivRange(a, b, lo, hi, r) ==
  IF lo = hi
  THEN LET r2 == BitNorm(<< a[lo] >> \o r)
       IN  IF BitGeq(r2, b) THEN [q |-> << 1 >>, r |-> BitSub(r2, b)]
           ELSE [q |-> << 0 >>, r |-> r2]
  ELSE LET mid == (lo + hi) \div 2
           h   == BitDivRange(a, b, mid + 1, hi, r)
           l   == BitDivRange(a, b, lo, mid, h.r)
       IN  \* the upper half is worked out first, then the lower half
           IF Len(h.q) = hi - mid THEN [q |-> l.q \o h.q, r |-> l.r] ELSE h

\* [q, r] with a = q*b + r, 0 <= r < b
BitDivMod(a, b) ==
  IF a = << >> THEN [q |-> << >>, r |-> << >>]
  ELSE LET d == BitDivRange(a, b, 1, Len(a), << >>)
       IN  [q |-> BitNorm(d.q), r |-> d.r]

(***************************************************************************)
(* IEEE-754 doubles (non-negative, normal range): [m, e], value m * 2^e,   *)
(* m either empty (zero) or exactly MantBits bits long.                    *)
(***************************************************************************)
MantBits == 53

\* round-to-nearest, ties-to-even decision when the bits lo are dropped
\* below the kept bits hi
RoundsUp(hi, lo) ==
  /\ lo # << >>
  /\ lo[Len(lo)] = 1
  /\ \/ \E i \in 1..(Len(lo) - 1) : lo[i] = 1
     \/ (hi # << >> /\ hi[1] = 1)

\* the double nearest to M * 2^e (M a bit sequence without leading zeros)
FloatRound(M, e) ==
  LET L == Len(M) IN
  IF L = 0 THEN [m |-> << >>, e |-> 0]
  ELSE IF L <= MantBits
  THEN [m |-> BitShl(M, MantBits - L), e |-> e - (MantBits - L)]
  ELSE LET d  == L - MantBits
           hi == SubSeq(M, d + 1, L)
           lo == SubSeq(M, 1, d)
           m2 == IF RoundsUp(hi, lo) THEN BitAdd(hi, << 1 >>) ELSE hi
       IN  IF Len(m2) > MantBits
           THEN [m |-> SubSeq(m2, 2, Len(m2)), e |-> e + d + 1]
           ELSE [m |-> m2, e |-> e + d]

\* number of extra quotient bits computed before rounding a division
DivGuard == 90

\* Python int / int (true division, correctly rounded); a, b bit sequences
IntTrueDiv(a, b) ==
  LET qr == BitDivMod(BitShl(a, DivGuard), b)
      st == IF qr.r = << >> THEN << 0 >> ELSE << 1 >>
  IN  IF a = << >> THEN [m |-> << >>, e |-> 0]
      ELSE FloatRound(st \o qr.q, -(DivGuard + 1))

\* Python int -> float
IntToFloat(n) == FloatRound(NatBits(n), 0)

\* float * float
FloatMul(x, y) == FloatRound(BitNorm(BitMul(x.m, y.m)), x.e + y.e)

\* float // float for positive operands: CPython's float_floor_div takes the
\* exact fmod and returns the exact floor of the quotient of the two doubles
FloatFloorDiv(x, y) ==
  LET q == IF x.m = << >> THEN << >>
           ELSE IF x.e >= y.e
           THEN BitDivMod(BitShl(x.m, x.e - y.e), y.m).q
           ELSE BitDivMod(x.m, BitShl(y.m, y.e - x.e)).q
  IN  FloatRound(q, 0)

\* modf: integral part (as a natural) and fractional part (as a double)
FloatIntPart(x) ==
  IF x.m = << >> THEN << >>
  ELSE IF x.e >= 0 THEN BitShl(x.m, x.e) ELSE BitShr(x.m, -x.e)

FloatFracPart(x) ==
  IF x.m = << >> \/ x.e >= 0 THEN [m |-> << >>, e |-> 0]
  ELSE LET k == IF -x.e > Len(x.m) THEN Len(x.m) ELSE -x.e
       IN  FloatRound(BitNorm(SubSeq(x.m, 1, k)), x.e)

\* round a double to the nearest integer, ties to even
FloatRoundHalfEven(x) ==
  IF x.m = << >> THEN << >>
  ELSE IF x.e >= 0 THEN BitShl(x.m, x.e)
  ELSE IF -x.e > Len(x.m) THEN << >>
  ELSE LET hi == BitShr(x.m, -x.e)
           lo == SubSeq(x.m, 1, -x.e)
       IN  IF RoundsUp(hi, lo) THEN BitAdd(hi, << 1 >>) ELSE hi

(***************************************************************************)
(* datetime / timedelta: [days, seconds, microseconds] from the epoch.     *)
(***************************************************************************)
US_PER_SECOND == 1000000
SECONDS_PER_DAY == 86400

TdMicros(td) ==
  BitAdd(BitMul(NatBits(td.days * SECONDS_PER_DAY + td.seconds),
                NatBits(US_PER_SECOND)),
         NatBits(td.microseconds))

MicrosTd(us) ==
  LET qr == BitDivMod(us, NatBits(US_PER_SECOND))
      s  == BitsNat(qr.q)
  IN  [days |-> s \div SECONDS_PER_DAY, seconds |-> s % SECONDS_PER_DAY,
       microseconds |-> BitsNat(qr.r)]

TdLess(a, b) ==
  \/ a.days < b.days
  \/ a.days = b.days /\ a.seconds < b.seconds
  \/ a.days = b.days /\ a.seconds = b.seconds /\ a.microseconds < b.microseconds

TdLeq(a, b) == a = b \/ TdLess(a, b)

\* the normalisation of the timedelta constructor
TdNorm(d, sec, us) ==
  [days |-> d + (sec + us \div US_PER_SECOND) \div SECONDS_PER_DAY,
   seconds |-> (sec + us \div US_PER_SECOND) % SECONDS_PER_DAY,
   microseconds |-> us % US_PER_SECOND]

\* datetime + timedelta
TdAdd(a, b) ==
  TdNorm(a.days + b.days, a.seconds + b.seconds, a.microseconds + b.microseconds)

\* datetime - datetime, datetime - timedelta
TdSub(a, b) ==
  TdNorm(a.days - b.days, a.seconds - b.seconds, a.microseconds - b.microseconds)

\* timedelta.total_seconds(), and datetime.timestamp() of an aware datetime
\* (its offset from the epoch): microseconds / 10**6
total_seconds(td) == IntTrueDiv(TdMicros(td), NatBits(US_PER_SECOND))

\* seconds held in a double to whole microseconds: modf, fractional part
\* times 1e6, rounded half to even (timedelta(seconds=float) and
\* datetime.fromtimestamp both do this)
SecondsToTd(x) ==
  LET whole == BitMul(FloatIntPart(x), NatBits(US_PER_SECOND))
      frac  == FloatMul(FloatFracPart(x), IntToFloat(US_PER_SECOND))
  IN  MicrosTd(BitAdd(whole, FloatRoundHalfEven(frac)))

\* timedelta(seconds=n) for an int n
timedelta_seconds(n) ==
  [days |-> n \div SECONDS_PER_DAY, seconds |-> n % SECONDS_PER_DAY,
   microseconds |-> 0]

_round_datetime_to_grid(dt, step) ==
  LET ts           == total_seconds(dt)
      step_seconds == total_seconds(step)
      rounded      == FloatMul(FloatFloorDiv(ts, step_seconds), step_seconds)
  IN  SecondsToTd(rounded)

(***************************************************************************)
(* Strings are sequences of one-character strings, compared by code point. *)
(***************************************************************************)
DigitChars == << "0", "1", "2", "3", "4", "5", "6", "7", "8", "9" >>

IsDigit(c) == \E i \in 1..10 : DigitChars[i] = c

DigitVal(c) == (CHOOSE i \in 1..10 : DigitChars[i] = c) - 1

\* code points of the characters that occur in formatted times
Ord(c) ==
  IF IsDigit(c) THEN 48 + DigitVal(c)
  ELSE IF c = "-" THEN 45 ELSE IF c = "." THEN 46 ELSE IF c = ":" THEN 58
  ELSE IF c = "T" THEN 84 ELSE 90

\* Python str < str
RECURSIVE StrLess(_, _)
StrLess(a, b) ==
  IF b = << >> THEN FALSE
  ELSE IF a = << >> THEN TRUE
  ELSE IF a[1] # b[1] THEN Ord(a[1]) < Ord(b[1])
  ELSE StrLess(Tail(a), Tail(b))

\* int(str) of a digit string
RECURSIVE ParseInt(_)
ParseInt(ds) ==
  IF ds = << >> THEN 0
  ELSE 10 * ParseInt(SubSeq(ds, 1, Len(ds) - 1)) + DigitVal(ds[Len(ds)])

\* zero-padded decimal of width w
RECURSIVE Pad(_, _)
Pad(n, w) == IF w = 0 THEN << >> ELSE Pad(n \div 10, w - 1) \o << DigitChars[(n % 10) + 1] >>

(***************************************************************************)
(* Responses: HTTPException(status_code, detail) or a 2xx body.            *)
(***************************************************************************)
HTTPException(code, text) == [status |-> code, detail |-> text]

IsError(r) == "detail" \in DOMAIN r

\* an absent query parameter
None == << "<None>" >>

Units == { << "m", "s" >>, << "s" >>, << "m" >>, << "h" >>, << "d" >> }

\* seconds per unit for the integer units of mult
mult(unit) ==
  IF unit = << "s" >> THEN 1 ELSE IF unit = << "m" >> THEN 60
  ELSE IF unit = << "h" >> THEN 3600 ELSE 86400

\* the double written 0.001
MultMs == IntTrueDiv(NatBits(1), NatBits(1000))

\* a faulty variant: re.match, which lets text follow the unit
MatchDigitsPrefix(value) ==
  LET ks == {k \in 1..(Len(value) - 1) :
               /\ \A i \in 1..k : IsDigit(value[i])
               /\ \E n \in (k + 1)..Len(value) : SubSeq(value, k + 1, n) \in Units}
  IN  IF ks = {} THEN 0 ELSE CHOOSE k \in ks : \A j \in ks : j <= k

\* re.fullmatch(r"(\d+)(ms|s|m|h|d)", value): the length of group 1, or 0
MatchDigits(value) ==
  LET ks == {k \in 1..(Len(value) - 1) :
               /\ \A i \in 1..k : IsDigit(value[i])
               /\ SubSeq(value, k + 1, Len(value)) \in Units}
  IN  IF ks = {} THEN 0 ELSE CHOOSE k \in ks : TRUE

\* the step as a timedelta, or the HTTPException raised
_parse_precision(value) ==
  IF value = None THEN timedelta_seconds(60)
  ELSE LET k    == MatchDigits(value)
           n    == ParseInt(SubSeq(value, 1, k))
           unit == SubSeq(value, k + 1, Len(value))
       IN  IF k = 0 THEN HTTPException(400, "Invalid date format or range")
           ELSE IF n <= 0 THEN HTTPException(400, "Invalid date format or range")
           ELSE IF unit = << "m", "s" >>
           THEN SecondsToTd(FloatMul(IntToFloat(n), MultMs))
           ELSE timedelta_seconds(n * mult(unit))

\* a faulty variant: second precision whatever the step
_format_utc_seconds(dt, step) ==
  << "1", "9", "7", "0", "-", "0", "1", "-" >> \o Pad(dt.days + 1, 2) \o << "T" >>
    \o Pad(dt.seconds \div 3600, 2) \o << ":" >>
    \o Pad((dt.seconds \div 60) % 60, 2) \o << ":" >>
    \o Pad(dt.seconds % 60, 2) \o << "Z" >>

\* strftime of an instant of January 1970
_format_utc(dt, step) ==
  LET date == << "1", "9", "7", "0", "-", "0", "1", "-" >> \o Pad(dt.days + 1, 2)
      hms  == Pad(dt.seconds \div 3600, 2) \o << ":" >>
              \o Pad((dt.seconds \div 60) % 60, 2) \o << ":" >>
              \o Pad(dt.seconds % 60, 2)
  IN  IF TdLess(step, timedelta_seconds(1))
      THEN LET f == date \o << "T" >> \o hms \o << "." >> \o Pad(dt.microseconds, 6)
           IN  SubSeq(f, 1, Len(f) - 3) \o << "Z" >>
      ELSE date \o << "T" >> \o hms \o << "Z" >>

(***************************************************************************)
(* Program state: the two module-level dicts and the last reply sent.      *)
(* A dict is the sequence of its values in insertion order (each value     *)
(* carries its key as id); last holds the request, the reply and, for a    *)
(* scan, the handler's locals.  running is the frame of the coroutine that *)
(* the event loop has entered and not yet left, or Idle.  issued is a      *)
(* history of the keys that the create handlers have assigned.             *)
(***************************************************************************)
VARIABLES orbits, satellites, last, running, issued

vars == << orbits, satellites, last, running, issued >>

Idle == [op |-> "idle"]

NoneIssued == [orbits |-> {}, satellites |-> {}]

Keys(d) == {d[i].id : i \in 1..Len(d)}

\* d[k] for a key of d
Get(d, k) == d[CHOOSE i \in 1..Len(d) : d[i].id = k]

\* d[k] = v: an existing key keeps its place, a new key goes last
Put(d, k, v) ==
  IF k \in Keys(d) THEN [i \in 1..Len(d) |-> IF d[i].id = k THEN v ELSE d[i]]
  ELSE Append(d, v)

\* del d[k]
Del(d, k) == SelectSeq(d, LAMBDA r : r.id # k)

\* max(d.keys(), default=0)
MaxKey(d) ==
  IF d = << >> THEN 0 ELSE CHOOSE k \in Keys(d) : \A j \in Keys(d) : j <= k

(***************************************************************************)
(* Datetimes as received: the wall-clock fields and the UTC offset, or no  *)
(* tzinfo at all.  A date parameter of a query may also be absent or not   *)
(* parse.                                                                  *)
(***************************************************************************)
Zero == [days |-> 0, seconds |-> 0, microseconds |-> 0]

Naive(w) == [wall |-> w, tzinfo |-> "naive", utcoffset |-> Zero]

Aware(w, off) == [wall |-> w, tzinfo |-> "aware", utcoffset |-> off]

\* an absent date parameter, and one that isoparse rejects
NoDate == [wall |-> Zero, tzinfo |-> "absent", utcoffset |-> Zero]

BadDate == [wall |-> Zero, tzinfo |-> "unparseable", utcoffset |-> Zero]

\* dt.replace(tzinfo=timezone.utc): the fields are kept, the zone is relabelled
replace_utc(dt) == dt.wall

\* naive: replace(tzinfo=utc); aware: astimezone(utc).  The instant in UTC.
ToUtc(dt) ==
  IF dt.tzinfo = "naive" THEN replace_utc(dt) ELSE TdSub(dt.wall, dt.utcoffset)

\* the instant, or the HTTPException raised
_parse_range_timestamp(date_str) ==
  IF date_str = BadDate THEN HTTPException(400, "Invalid date format or range")
  ELSE ToUtc(date_str)

(***************************************************************************)
(* Orbital position.  The orbits of the model are equatorial (inclination  *)
(* 0), where lat = asin(0 * sin(theta)) = 0 and lon = theta + raan.  The   *)
(* angle theta = (omega * delta_t + initial_longitude) mod 2 pi is kept as *)
(* the term of its inputs, omega being a function of the altitude; two     *)
(* positions are told apart by their terms.                                *)
(***************************************************************************)
R_earth == 6371

Theta(sat, orbit, delta_t) ==
  [altitude |-> orbit.orbital_altitude, delta_t |-> delta_t,
   initial_longitude |-> sat.initial_longitude]

_compute_satellite_ecef_and_geo(sat, orbit, ts) ==
  LET launch  == ToUtc(sat.launch_date)
      delta_t == TdSub(ts, launch)
      theta   == Theta(sat, orbit, delta_t)
      lat     == [inclination |-> orbit.inclination, theta |-> theta]
      lon     == [inclination |-> orbit.inclination, theta |-> theta,
                  raan |-> orbit.raan]
      alt     == orbit.orbital_altitude
  IN  [ecef |-> [r |-> R_earth + alt, lat |-> lat, lon |-> lon],
       geo  |-> [lat |-> lat, lon |-> lon, alt |-> alt]]

\* degrees of the equatorial position at delta_t = 0, in [0, 360)
PhaseDeg(lon) == (lon.theta.initial_longitude + lon.raan) % 360

\* the two flight times are within a millisecond of each other
NearInTime(d1, d2) ==
  LET ms == [days |-> 0, seconds |-> 0, microseconds |-> 1000]
  IN  TdLeq(d1, TdAdd(d2, ms)) /\ TdLeq(d2, TdAdd(d1, ms))

\* a faulty variant: 0 < dist < min_sep_km
CloserApart(ecef1, ecef2) ==
  /\ ecef1.r = ecef2.r
  /\ NearInTime(ecef1.lon.theta.delta_t, ecef2.lon.theta.delta_t)
  /\ PhaseDeg(ecef1.lon) = PhaseDeg(ecef2.lon)
  /\ ecef1 # ecef2

\* sqrt(dx*dx + dy*dy + dz*dz) < min_sep_km, for equatorial positions whose
\* flight times are within a millisecond or at least half a second apart:
\* the two are on the same circle, moving at the same rate (under 8 km/s,
\* so under 0.008 km in a millisecond), from the same angle
Closer(ecef1, ecef2) ==
  /\ ecef1.r = ecef2.r
  /\ NearInTime(ecef1.lon.theta.delta_t, ecef2.lon.theta.delta_t)
  /\ PhaseDeg(ecef1.lon) = PhaseDeg(ecef2.lon)

(***************************************************************************)
(* GET /collisions                                                         *)
(***************************************************************************)
\* while current <= e_rounded: time_grid.append(current); current += step
RECURSIVE TimeGrid(_, _, _)
TimeGrid(current, e_rounded, step) ==
  IF TdLeq(current, e_rounded)
  THEN << current >> \o TimeGrid(TdAdd(current, step), e_rounded, step)
  ELSE << >>

\* a faulty variant: ts <= launch skips the satellite
IsActiveStrict(sat, orbs, ts) ==
  /\ sat.orbit_id \in Keys(orbs)
  /\ TdLess(ToUtc(sat.launch_date), ts)

\* the satellite takes part at ts: its orbit resolves and it is launched
IsActive(sat, orbs, ts) ==
  /\ sat.orbit_id \in Keys(orbs)
  /\ ~ TdLess(ts, ToUtc(sat.launch_date))

\* active_positions at ts, in the iteration order of the satellites dict
ActivePositions(sats, orbs, ts) ==
  LET act == SelectSeq(sats, LAMBDA sat : IsActive(sat, orbs, ts))
  IN  [k \in 1..Len(act) |->
         LET p == _compute_satellite_ecef_and_geo(act[k], Get(orbs, act[k].orbit_id), ts)
         IN  [sat_id |-> act[k].id, ecef |-> p.ecef, geo |-> p.geo]]

\* a faulty variant: "position": geo2
RECURSIVE InnerLoopSecond(_, _, _, _, _)
InnerLoopSecond(active, i, j, ts, step) ==
  IF j > Len(active) THEN << >>
  ELSE LET id1 == active[i].sat_id
           id2 == active[j].sat_id
           hit == IF Closer(active[i].ecef, active[j].ecef)
                  THEN << [satellite1 |-> IF id1 <= id2 THEN id1 ELSE id2,
                           satellite2 |-> IF id1 <= id2 THEN id2 ELSE id1,
                           time       |-> _format_utc(ts, step),
                           position   |-> active[j].geo] >>
                  ELSE << >>
       IN  hit \o InnerLoopSecond(active, i, j + 1, ts, step)

\* a faulty variant: sat1_id, sat2_id = id1, id2
RECURSIVE InnerLoopUnsorted(_, _, _, _, _)
InnerLoopUnsorted(active, i, j, ts, step) ==
  IF j > Len(active) THEN << >>
  ELSE LET hit == IF Closer(active[i].ecef, active[j].ecef)
                  THEN << [satellite1 |-> active[i].sat_id,
                           satellite2 |-> active[j].sat_id,
                           time       |-> _format_utc(ts, step),
                           position   |-> active[i].geo] >>
                  ELSE << >>
       IN  hit \o InnerLoopUnsorted(active, i, j + 1, ts, step)

\* for j in range(first, n): the events of active_positions[i] with [j]
RECURSIVE InnerLoop(_, _, _, _, _)
InnerLoop(active, i, j, ts, step) ==
  IF j > Len(active) THEN << >>
  ELSE LET id1 == active[i].sat_id
           id2 == active[j].sat_id
           hit == IF Closer(active[i].ecef, active[j].ecef)
                  THEN << [satellite1 |-> IF id1 <= id2 THEN id1 ELSE id2,
                           satellite2 |-> IF id1 <= id2 THEN id2 ELSE id1,
                           time       |-> _format_utc(ts, step),
                           position   |-> active[i].geo] >>
                  ELSE << >>
       IN  hit \o InnerLoop(active, i, j + 1, ts, step)

\* a faulty variant: for j in range(i, n)
RECURSIVE OuterLoopSelf(_, _, _, _)
OuterLoopSelf(active, i, ts, step) ==
  IF i > Len(active) - 1 THEN << >>
  ELSE InnerLoop(active, i, i, ts, step) \o OuterLoopSelf(active, i + 1, ts, step)

\* for i in range(n - 1): for j in range(i + 1, n)
RECURSIVE OuterLoop(_, _, _, _)
OuterLoop(active, i, ts, step) ==
  IF i > Len(active) - 1 THEN << >>
  ELSE InnerLoop(active, i, i + 1, ts, step) \o OuterLoop(active, i + 1, ts, step)

\* one pass of "for ts in time_grid": the active satellites and the events
ScanInstant(sats, orbs, ts, step) ==
  LET active == ActivePositions(sats, orbs, ts)
  IN  [active |-> [k \in 1..Len(active) |-> active[k].sat_id],
       events |-> IF Len(active) < 2 THEN << >>
                  ELSE OuterLoop(active, 1, ts, step)]

\* the events of the passes k.. in the order they are appended
RECURSIVE Appended(_, _)
Appended(passes, k) ==
  IF k > Len(passes) THEN << >>
  ELSE passes[k].events \o Appended(passes, k + 1)

\* the number of calls of _compute_satellite_ecef_and_geo in the passes k..
RECURSIVE Propagations(_, _)
Propagations(passes, k) ==
  IF k > Len(passes) THEN 0
  ELSE Len(passes[k].active) + Propagations(passes, k + 1)

\* key=lambda it: (it["time"], it["satellite1"], it["satellite2"]), compared
\* as Python compares tuples
KeyLess(a, b) ==
  \/ StrLess(a.time, b.time)
  \/ a.time = b.time /\ a.satellite1 < b.satellite1
  \/ a.time = b.time /\ a.satellite1 = b.satellite1 /\ a.satellite2 < b.satellite2

\* list.sort: stable, an item goes after the items whose keys are not larger
RECURSIVE InsertSorted(_, _)
InsertSorted(acc, it) ==
  IF acc = << >> THEN << it >>
  ELSE IF KeyLess(it, acc[Len(acc)])
  THEN Append(InsertSorted(SubSeq(acc, 1, Len(acc) - 1), it), acc[Len(acc)])
  ELSE Append(acc, it)

RECURSIVE SortFrom(_, _, _)
SortFrom(items, k, acc) ==
  IF k > Len(items) THEN acc
  ELSE SortFrom(items, k + 1, InsertSorted(acc, items[k]))

SortCollisions(items) == SortFrom(items, 1, << >>)

(***************************************************************************)
(* Requests of the model.                                                  *)
(***************************************************************************)
Ms(n) == [days |-> 0, seconds |-> n \div 1000, microseconds |-> (n % 1000) * 1000]

\* start_date / end_date values
ScanDates ==
  { NoDate, BadDate, Naive(Ms(300)), Aware(Ms(1000), Zero), Aware(Ms(2000), Zero),
    Aware(Ms(61500), Ms(60000)) }

\* precision values
Precisions ==
  { None, << "5", "0", "0", "m", "s" >>, << "1", "0", "0", "m", "s" >>,
    << "1", "s" >>, << "1", "5", "0", "0", "m", "s" >>, << "0", "s" >>,
    << "1", "x" >> }

\* every string of at most MaxSpecLen characters over StepAlphabet
MaxSpecLen == 3

StepAlphabet == { "0", "1", "5", "m", "s", "h", "d", "x" }

StepSpecs == UNION { [1..n -> StepAlphabet] : n \in 0..MaxSpecLen }

\* the conversions of the handlers, tabulated over the requests of the model
\* (f @@ << >> is f, held as an explicit table)
StepOf == [value \in Precisions \cup StepSpecs |-> _parse_precision(value)] @@ << >>

InstantsOf(dates) == {ToUtc(d) : d \in dates \ {NoDate, BadDate}}

StepsOf(values) == {StepOf[value] : value \in {v \in values : ~ IsError(StepOf[v])}}

\* the instants of ScanDates under the steps of Precisions, and the instant
\* of the scans of SpecStep under the steps of StepSpecs
RoundedOf ==
  [dt \in InstantsOf(ScanDates), step \in StepsOf(Precisions) |->
     _round_datetime_to_grid(dt, step)]
  @@ [dt \in { Ms(2000) }, step \in StepsOf(StepSpecs) |->
        _round_datetime_to_grid(dt, step)]

\* a faulty variant: if e <= s
EndNotAfterStart(s, e) == TdLeq(e, s)

\* if e < s
EndBeforeStart(s, e) == TdLess(e, s)

GetCollisions(sats, orbs, start_date, end_date, precision, steps, rounded) ==
  LET req == [op |-> "get_collisions", start_date |-> start_date,
              end_date |-> end_date, precision |-> precision]
      Raise(exc) == [req |-> req, status |-> exc.status, detail |-> exc.detail,
                     collisions |-> << >>, step |-> Zero, time_grid |-> << >>,
                     passes |-> << >>, propagations |-> 0]
      s    == _parse_range_timestamp(start_date)
      e    == _parse_range_timestamp(end_date)
      step == steps[precision]
  IN  IF start_date = NoDate \/ end_date = NoDate
      THEN Raise(HTTPException(400, "Invalid date format or range"))
      ELSE IF IsError(s) THEN Raise(s)
      ELSE IF IsError(e) THEN Raise(e)
      ELSE IF IsError(step) THEN Raise(step)
      ELSE IF EndBeforeStart(s, e)
      THEN Raise(HTTPException(400, "Invalid date format or range"))
      ELSE LET s_rounded == rounded[s, step]
               e_rounded == rounded[e, step]
               time_grid == TimeGrid(s_rounded, e_rounded, step)
               passes    == [k \in 1..Len(time_grid) |->
                               ScanInstant(sats, orbs, time_grid[k], step)]
           IN  [req |-> req, status |-> 200, detail |-> "",
                collisions |-> SortCollisions(Appended(passes, 1)),
                step |-> step, time_grid |-> time_grid, passes |-> passes,
                propagations |-> Propagations(passes, 1)]

get_collisions(start_date, end_date, precision) ==
  /\ last' = GetCollisions(satellites, orbits, start_date, end_date, precision,
                           StepOf, RoundedOf)
  /\ UNCHANGED << orbits, satellites >>

(***************************************************************************)
(* Orbit and satellite endpoints.  A path id is a digit string, given by   *)
(* its value; 0 stands for the ids the handlers reject as malformed.       *)
(***************************************************************************)
MaxOrbitId == 2
MaxSatId == 3

Reply(op, id, code, text) ==
  [req |-> [op |-> op, id |-> id], status |-> code, detail |-> text]

\* Orbit(id=..., **body.model_dump())
Orbit(id, body) ==
  [id |-> id, name |-> body.name, orbital_altitude |-> body.orbital_altitude,
   inclination |-> body.inclination, raan |-> body.raan]

\* Satellite(id=..., **body.model_dump())
Satellite(id, body) ==
  [id |-> id, name |-> body.name, operator |-> body.operator,
   launch_date |-> body.launch_date, status |-> body.status,
   initial_longitude |-> body.initial_longitude, orbit_id |-> body.orbit_id]

\* str.lower() on the names of the model
Lower(name) == IF name = "Sat-A" THEN "sat-a" ELSE name

create_orbit(orbit) ==
  LET new_id == MaxKey(orbits) + 1 IN
  /\ new_id <= MaxOrbitId
  /\ IF \E i \in 1..Len(orbits) : orbits[i].name = orbit.name
     THEN /\ last' = Reply("create_orbit", 0, 409, "Orbit name already exists")
          /\ UNCHANGED << orbits, satellites >>
     ELSE /\ orbits' = Put(orbits, new_id, Orbit(new_id, orbit))
          /\ last' = Reply("create_orbit", new_id, 201, "")
          /\ UNCHANGED satellites

update_orbit(id, orbit_update) ==
  IF id <= 0
  THEN /\ last' = Reply("update_orbit", id, 400, "Invalid ID format or invalid data")
       /\ UNCHANGED << orbits, satellites >>
  ELSE IF id \notin Keys(orbits)
  THEN /\ last' = Reply("update_orbit", id, 404, "Orbit not found")
       /\ UNCHANGED << orbits, satellites >>
  ELSE IF \E i \in 1..Len(orbits) :
            orbits[i].name = orbit_update.name /\ orbits[i].id # id
  THEN /\ last' = Reply("update_orbit", id, 409, "Orbit name already exists")
       /\ UNCHANGED << orbits, satellites >>
  ELSE IF \/ ~ (160 < orbit_update.orbital_altitude /\ orbit_update.orbital_altitude <= 40000)
          \/ ~ (0 <= orbit_update.inclination /\ orbit_update.inclination <= 180)
          \/ ~ (0 <= orbit_update.raan /\ orbit_update.raan < 360)
  THEN /\ last' = Reply("update_orbit", id, 400, "Invalid ID format or invalid data")
       /\ UNCHANGED << orbits, satellites >>
  ELSE /\ orbits' = Put(orbits, id, Orbit(id, orbit_update))
       /\ last' = Reply("update_orbit", id, 200, "")
       /\ UNCHANGED satellites

\* a faulty variant: without the loop over satellites.values()
delete_orbit_unreferenced(id) ==
  IF id <= 0
  THEN /\ last' = Reply("delete_orbit", id, 400, "Invalid ID format")
       /\ UNCHANGED << orbits, satellites >>
  ELSE IF id \notin Keys(orbits)
  THEN /\ last' = Reply("delete_orbit", id, 404, "Orbit not found")
       /\ UNCHANGED << orbits, satellites >>
  ELSE /\ orbits' = Del(orbits, id)
       /\ last' = Reply("delete_orbit", id, 204, "")
       /\ UNCHANGED satellites

delete_orbit(id) ==
  IF id <= 0
  THEN /\ last' = Reply("delete_orbit", id, 400, "Invalid ID format")
       /\ UNCHANGED << orbits, satellites >>
  ELSE IF id \notin Keys(orbits)
  THEN /\ last' = Reply("delete_orbit", id, 404, "Orbit not found")
       /\ UNCHANGED << orbits, satellites >>
  ELSE IF \E i \in 1..Len(satellites) : satellites[i].orbit_id = id
  THEN /\ last' = Reply("delete_orbit", id, 409, "Orbit in use by satellites")
       /\ UNCHANGED << orbits, satellites >>
  ELSE /\ orbits' = Del(orbits, id)
       /\ last' = Reply("delete_orbit", id, 204, "")
       /\ UNCHANGED satellites

create_satellite(sat_data) ==
  LET new_id == MaxKey(satellites) + 1 IN
  /\ new_id <= MaxSatId
  /\ IF \E i \in 1..Len(satellites) : satellites[i].name = sat_data.name
     THEN /\ last' = Reply("create_satellite", 0, 409, "Satellite name already exists")
          /\ UNCHANGED << orbits, satellites >>
     ELSE IF ~ (sat_data.orbit_id > 0)
     THEN /\ last' = Reply("create_satellite", 0, 400, "Invalid orbit ID format")
          /\ UNCHANGED << orbits, satellites >>
     ELSE IF sat_data.orbit_id \notin Keys(orbits)
     THEN /\ last' = Reply("create_satellite", 0, 400, "Orbit not found")
          /\ UNCHANGED << orbits, satellites >>
     ELSE /\ satellites' = Put(satellites, new_id, Satellite(new_id, sat_data))
          /\ last' = Reply("create_satellite", new_id, 201, "")
          /\ UNCHANGED orbits

update_satellite(id, satellite_update) ==
  IF id <= 0
  THEN /\ last' = Reply("update_satellite", id, 400, "Invalid ID format or invalid data")
       /\ UNCHANGED << orbits, satellites >>
  ELSE IF id \notin Keys(satellites)
  THEN /\ last' = Reply("update_satellite", id, 404, "Satellite not found")
       /\ UNCHANGED << orbits, satellites >>
  ELSE IF \E i \in 1..Len(satellites) :
            /\ satellites[i].id # id
            /\ Lower(satellites[i].name) = Lower(satellite_update.name)
  THEN /\ last' = Reply("update_satellite", id, 409, "Satellite name already exists")
       /\ UNCHANGED << orbits, satellites >>
  ELSE IF satellite_update.orbit_id \notin Keys(orbits)
  THEN /\ last' = Reply("update_satellite", id, 400, "Invalid orbit_id")
       /\ UNCHANGED << orbits, satellites >>
  ELSE /\ satellites' = Put(satellites, id, Satellite(id, satellite_update))
       /\ last' = Reply("update_satellite", id, 200, "")
       /\ UNCHANGED orbits

delete_satellite(id) ==
  IF id <= 0
  THEN /\ last' = Reply("delete_satellite", id, 400, "Invalid ID format")
       /\ UNCHANGED << orbits, satellites >>
  ELSE IF id \notin Keys(satellites)
  THEN /\ last' = Reply("delete_satellite", id, 404, "Satellite not found")
       /\ UNCHANGED << orbits, satellites >>
  ELSE /\ satellites' = Del(satellites, id)
       /\ last' = Reply("delete_satellite", id, 204, "")
       /\ UNCHANGED orbits

(***************************************************************************)
(* GET /satellites/{id}/position                                           *)
(***************************************************************************)
GetSatellitePosition(sats, orbs, id, timestamp) ==
  LET req == [op |-> "get_satellite_position", id |-> id, timestamp |-> timestamp]
      Raise(code, text) == [req |-> req, status |-> code, detail |-> text,
                            body |-> << >>]
  IN  IF id <= 0 THEN Raise(400, "Invalid ID format or timestamp")
      ELSE IF id \notin Keys(sats) THEN Raise(404, "Satellite not found")
      ELSE IF timestamp = NoDate THEN Raise(400, "Invalid ID format or timestamp")
      ELSE IF timestamp = BadDate THEN Raise(400, "Invalid ID format or timestamp")
      ELSE LET sat    == Get(sats, id)
               ts     == ToUtc(timestamp)
               launch == replace_utc(sat.launch_date)
           IN  IF TdLess(ts, launch) THEN Raise(400, "Timestamp before launch date")
               ELSE IF sat.orbit_id \notin Keys(orbs) THEN Raise(400, "Orbit not found")
               ELSE LET orbit   == Get(orbs, sat.orbit_id)
                        delta_t == TdSub(ts, launch)
                        theta   == Theta(sat, orbit, delta_t)
                    IN  [req |-> req, status |-> 200, detail |-> "",
                         body |-> << [lat |-> [inclination |-> orbit.inclination,
                                               theta |-> theta],
                                      lon |-> [inclination |-> orbit.inclination,
                                               theta |-> theta, raan |-> orbit.raan],
                                      alt |-> orbit.orbital_altitude] >>]

get_satellite_position(id, timestamp) ==
  /\ last' = GetSatellitePosition(satellites, orbits, id, timestamp)
  /\ UNCHANGED << orbits, satellites >>

(***************************************************************************)
(* The requests sent by the clients of the model.                          *)
(***************************************************************************)
LeoA == [name |-> "leo-a", orbital_altitude |-> 550, inclination |-> 0, raan |-> 0]

LeoB == [name |-> "leo-b", orbital_altitude |-> 550, inclination |-> 0, raan |-> 180]

Meo == [name |-> "leo-a", orbital_altitude |-> 20200, inclination |-> 0, raan |-> 0]

OrbitBodies == { LeoA, LeoB, Meo }

\* the definition of LeoA under another name
LeoTwin == [name |-> "leo-c", orbital_altitude |-> 550, inclination |-> 0, raan |-> 0]

SatBody(name, launch_date, initial_longitude, orbit_id) ==
  [name |-> name, operator |-> "op", launch_date |-> launch_date,
   status |-> "active", initial_longitude |-> initial_longitude,
   orbit_id |-> orbit_id]

\* launched at 00:00:01 UTC
SatA == SatBody("sat-a", Aware(Ms(1000), Zero), 0, 1)

SatB == SatBody("sat-b", Aware(Ms(1000), Zero), 0, 1)

\* launched at 00:01:01+00:01, the same instant
SatAEast == SatBody("Sat-A", Aware(Ms(61000), Ms(60000)), 180, 2)

\* launched a microsecond, and half a second, later
SatBMicro ==
  SatBody("sat-b", Aware([days |-> 0, seconds |-> 1, microseconds |-> 1], Zero), 0, 1)

SatBLate == SatBody("sat-b", Aware(Ms(1500), Zero), 0, 1)

SatelliteBodies == { SatA, SatB, SatAEast, SatBMicro, SatBLate }

\* launched at 00:01:01+00:01 from the longitude of SatA, on orbit 2
SatCEast == SatBody("sat-c", Aware(Ms(61000), Ms(60000)), 0, 2)

PositionDates ==
  { NoDate, BadDate, Naive(Ms(300)), Aware(Ms(1000), Zero),
    Aware(Ms(61500), Ms(60000)) }

ScanRequests ==
  { << NoDate, Aware(Ms(2000), Zero), None >>,
    << Naive(Ms(300)), BadDate, << "1", "s" >> >>,
    << Naive(Ms(300)), Aware(Ms(2000), Zero), << "0", "s" >> >>,
    << Aware(Ms(2000), Zero), Aware(Ms(1000), Zero), << "1", "s" >> >>,
    << Aware(Ms(1000), Zero), Aware(Ms(1000), Zero), None >>,
    << Naive(Ms(300)), Aware(Ms(2000), Zero), << "1", "s" >> >>,
    << Naive(Ms(300)), Aware(Ms(2000), Zero), << "5", "0", "0", "m", "s" >> >>,
    << Aware(Ms(1000), Zero), Aware(Ms(2000), Zero), << "5", "0", "0", "m", "s" >> >>,
    << Aware(Ms(1000), Zero), Aware(Ms(61500), Ms(60000)), << "1", "0", "0", "m", "s" >> >>,
    << Naive(Ms(300)), Aware(Ms(2000), Zero), << "1", "5", "0", "0", "m", "s" >> >> }

(***************************************************************************)
(* The service from its empty stores, under every request.                 *)
(***************************************************************************)
\* Each handler is a coroutine without an await: the event loop runs it from
\* its first statement to its last, so a request is served in one step.
Init ==
  /\ orbits = << >>
  /\ satellites = << >>
  /\ last = Reply("start", 0, 200, "")
  /\ running = Idle
  /\ issued = NoneIssued

Next ==
  \/ \E body \in OrbitBodies : create_orbit(body) /\ UNCHANGED << running, issued >>
  \/ \E id \in 0..MaxOrbitId, body \in OrbitBodies :
       update_orbit(id, body) /\ UNCHANGED << running, issued >>
  \/ \E id \in 0..MaxOrbitId : delete_orbit(id) /\ UNCHANGED << running, issued >>
  \/ \E body \in SatelliteBodies : create_satellite(body) /\ UNCHANGED << running, issued >>
  \/ \E id \in 0..MaxSatId, body \in SatelliteBodies :
       update_satellite(id, body) /\ UNCHANGED << running, issued >>
  \/ \E id \in 0..MaxSatId : delete_satellite(id) /\ UNCHANGED << running, issued >>
  \/ \E id \in 0..MaxSatId, timestamp \in PositionDates :
       get_satellite_position(id, timestamp) /\ UNCHANGED << running, issued >>
  \/ \E r \in ScanRequests : get_collisions(r[1], r[2], r[3]) /\ UNCHANGED << running, issued >>

Spec == Init /\ [][Next]_vars

(***************************************************************************)
(* The two queries over stores loaded with entries, as the dict literals   *)
(* of the module can be: the satellites in any order, their orbits present *)
(* or not.                                                                 *)
(***************************************************************************)
SeedOrbits ==
  { << >>, << Orbit(1, LeoA) >>, << Orbit(1, LeoA), Orbit(2, LeoB) >>,
    << Orbit(1, LeoA), Orbit(2, LeoTwin) >> }

SeedPool ==
  { Satellite(1, SatA), Satellite(2, SatB), Satellite(2, SatBLate),
    Satellite(2, SatBMicro), Satellite(3, SatAEast), Satellite(3, SatCEast) }

SeedSatellites ==
  { q \in UNION { [1..n -> SeedPool] : n \in 0..3 } :
      \A i, j \in DOMAIN q : i # j => q[i].id # q[j].id }

InitOpen ==
  /\ orbits \in SeedOrbits
  /\ satellites \in SeedSatellites
  /\ last = Reply("start", 0, 200, "")
  /\ running = Idle
  /\ issued = NoneIssued

NextOpen ==
  \/ \E id \in 0..MaxSatId, timestamp \in PositionDates :
       get_satellite_position(id, timestamp) /\ UNCHANGED << running, issued >>
  \/ \E r \in ScanRequests : get_collisions(r[1], r[2], r[3]) /\ UNCHANGED << running, issued >>

SpecOpen == InitOpen /\ [][NextOpen]_vars

(***************************************************************************)
(* Scans of one instant, one for every precision string of StepSpecs: a    *)
(* behaviour starts with the request received and ends with its reply.     *)
(***************************************************************************)
Received(value) ==
  [req |-> [op |-> "received", precision |-> value], status |-> 0, detail |-> ""]

InitStep ==
  /\ orbits = << Orbit(1, LeoA) >>
  /\ satellites = << Satellite(1, SatA), Satellite(2, SatB) >>
  /\ last \in {Received(value) : value \in StepSpecs \cup { None }}
  /\ running = Idle
  /\ issued = NoneIssued

NextStep ==
  /\ last.req.op = "received"
  /\ get_collisions(Aware(Ms(2000), Zero), Aware(Ms(2000), Zero), last.req.precision)
  /\ UNCHANGED << running, issued >>

SpecStep == InitStep /\ [][NextStep]_vars

(***************************************************************************)
(* The event loop with the scan taken statement by statement: the          *)
(* statements before the loop over the grid, one pass of that loop at a    *)
(* time, each reading the stores as they then are, and the sort and        *)
(* return.  The frame records the stores as the scan found them on entry.  *)
(***************************************************************************)
\* a faulty variant: the loop takes up other requests inside a handler, as
\* it would at an await
LoopYields(frame) == frame = frame

\* the event loop takes up a request only when no coroutine is entered
LoopFree(frame) == frame = Idle

\* lines 420-438 of the handler, which do not read the stores
Prologue(start_date, end_date, precision) ==
  GetCollisions(<< >>, << >>, start_date, end_date, precision, StepOf, RoundedOf)

collisions_enter(start_date, end_date, precision) ==
  LET g == Prologue(start_date, end_date, precision) IN
  IF g.status # 200
  THEN /\ last' = g
       /\ UNCHANGED << orbits, satellites, running >>
  ELSE /\ running' = [op |-> "get_collisions", req |-> g.req, step |-> g.step,
                      time_grid |-> g.time_grid, passes |-> << >>,
                      entry |-> [satellites |-> satellites, orbits |-> orbits]]
       /\ UNCHANGED << orbits, satellites, last >>

\* one pass of "for ts in time_grid"
collisions_pass ==
  /\ running # Idle
  /\ Len(running.passes) < Len(running.time_grid)
  /\ running' =
       [running EXCEPT !.passes =
          Append(@, ScanInstant(satellites, orbits,
                                running.time_grid[Len(@) + 1], running.step))]
  /\ UNCHANGED << orbits, satellites, last >>

\* collisions.sort(...) and the return
collisions_return ==
  /\ running # Idle
  /\ Len(running.passes) = Len(running.time_grid)
  /\ last' = [req |-> running.req, status |-> 200, detail |-> "",
              collisions |-> SortCollisions(Appended(running.passes, 1)),
              step |-> running.step, time_grid |-> running.time_grid,
              passes |-> running.passes,
              propagations |-> Propagations(running.passes, 1),
              entry |-> running.entry]
  /\ running' = Idle
  /\ UNCHANGED << orbits, satellites >>

LoopOrbits == { LeoA, LeoB }

LoopSatellites == { SatA, SatB, SatBLate }

LoopScans ==
  { << Aware(Ms(2000), Zero), Aware(Ms(1000), Zero), << "1", "s" >> >>,
    << Naive(Ms(300)), Aware(Ms(2000), Zero), << "1", "s" >> >>,
    << Aware(Ms(1000), Zero), Aware(Ms(2000), Zero), << "5", "0", "0", "m", "s" >> >> }

NextLoop ==
  \/ \E body \in LoopOrbits :
       LoopFree(running) /\ create_orbit(body) /\ UNCHANGED << running, issued >>
  \/ \E id \in 0..MaxOrbitId, body \in LoopOrbits :
       LoopFree(running) /\ update_orbit(id, body) /\ UNCHANGED << running, issued >>
  \/ \E id \in 0..MaxOrbitId :
       LoopFree(running) /\ delete_orbit(id) /\ UNCHANGED << running, issued >>
  \/ \E body \in LoopSatellites :
       LoopFree(running) /\ create_satellite(body) /\ UNCHANGED << running, issued >>
  \/ \E id \in 0..MaxSatId, body \in LoopSatellites :
       LoopFree(running) /\ update_satellite(id, body) /\ UNCHANGED << running, issued >>
  \/ \E id \in 0..MaxSatId :
       LoopFree(running) /\ delete_satellite(id) /\ UNCHANGED << running, issued >>
  \/ \E r \in LoopScans :
       running = Idle /\ collisions_enter(r[1], r[2], r[3]) /\ UNCHANGED issued
  \/ collisions_pass /\ UNCHANGED issued
  \/ collisions_return /\ UNCHANGED issued

SpecLoop == Init /\ [][NextLoop]_vars

(***************************************************************************)
(* Sequences of create and delete requests, with the keys assigned so far  *)
(* kept in issued.                                                         *)
(***************************************************************************)
\* the keys of the stores after the request join the keys assigned so far
Issue ==
  issued' = [orbits     |-> issued.orbits \cup Keys(orbits'),
             satellites |-> issued.satellites \cup Keys(satellites')]

NextIds ==
  \/ \E body \in LoopOrbits : create_orbit(body) /\ Issue /\ UNCHANGED running
  \/ \E id \in 0..MaxOrbitId : delete_orbit(id) /\ Issue /\ UNCHANGED running
  \/ \E body \in SatelliteBodies :
       create_satellite(body) /\ Issue /\ UNCHANGED running
  \/ \E id \in 0..MaxSatId : delete_satellite(id) /\ Issue /\ UNCHANGED running

SpecIds == Init /\ [][NextIds]_vars

(***************************************************************************)
(* Properties.  last holds the reply to the latest request together with   *)
(* the request; the stores are as that request left them.                  *)
(***************************************************************************)
IsScan(r) == r.req.op = "get_collisions"

IsPosition(r) == r.req.op = "get_satellite_position"

WellFormed(d) == d.tzinfo \in { "naive", "aware" }

DatesParse(r) == WellFormed(r.req.start_date) /\ WellFormed(r.req.end_date)

StartOf(r) == ToUtc(r.req.start_date)

EndOf(r) == ToUtc(r.req.end_date)

Range(q) == {q[i] : i \in 1..Len(q)}

\* an instant, or a step, in whole microseconds
Micros(t) == (t.days * SECONDS_PER_DAY + t.seconds) * US_PER_SECOND + t.microseconds

\* the step pattern: one or more digits, then one of ms, s, m, h, d
DigitsLen(value) ==
  Cardinality({k \in 1..Len(value) : \A i \in 1..k : IsDigit(value[i])})

UnitText(value) == SubSeq(value, DigitsLen(value) + 1, Len(value))

Magnitude(value) == ParseInt(SubSeq(value, 1, DigitsLen(value)))

FitsPattern(value) ==
  /\ value # None
  /\ DigitsLen(value) >= 1
  /\ UnitText(value) \in { << "m", "s" >>, << "s" >>, << "m" >>, << "h" >>, << "d" >> }

Accepted(value) == value = None \/ (FitsPattern(value) /\ Magnitude(value) > 0)

\* magnitude times unit
ExpectedStep(value) ==
  LET n == Magnitude(value)
      u == UnitText(value)
      sec == IF u = << "s" >> THEN n ELSE IF u = << "m" >> THEN 60 * n
             ELSE IF u = << "h" >> THEN 3600 * n ELSE 86400 * n
  IN  IF u = << "m", "s" >>
      THEN [days |-> 0, seconds |-> n \div 1000, microseconds |-> (n % 1000) * 1000]
      ELSE [days |-> sec \div 86400, seconds |-> sec % 86400, microseconds |-> 0]

InvalidRange(r) ==
  /\ r.status = 400
  /\ r.detail = "Invalid date format or range"
  /\ r.collisions = << >>

\* C1: for every start <= end and every accepted step the time grid is
\* exactly floor(start/step)*step + k*step for k = 0..K with
\* K = floor(end/step) - floor(start/step): non-empty, increasing by one
\* step, from rounded(start) to rounded(end) inclusive, every instant a
\* multiple of the step from the epoch, and unchanged by rounding it again.
C1_GridIsExact ==
  (IsScan(last) /\ last.status = 200) =>
    LET stepUs == Micros(last.step)
        first  == (Micros(StartOf(last)) \div stepUs) * stepUs
        final  == (Micros(EndOf(last)) \div stepUs) * stepUs
        grid   == last.time_grid
    IN  /\ Len(grid) = (final - first) \div stepUs + 1
        /\ \A k \in 1..Len(grid) : Micros(grid[k]) = first + (k - 1) * stepUs
        /\ \A k \in 1..Len(grid) : _round_datetime_to_grid(grid[k], last.step) = grid[k]

\* C2: a scan whose end instant is earlier than its start instant fails
\* with the invalid-range error before any satellite is propagated, returns
\* no events and leaves both stores unchanged; a scan with end equal to
\* start (and an accepted step) does not fail.
C2_EndBeforeStartRejected ==
  [][ (IsScan(last') /\ DatesParse(last')) =>
        /\ TdLess(EndOf(last'), StartOf(last')) =>
             /\ InvalidRange(last')
             /\ last'.passes = << >>
             /\ last'.propagations = 0
             /\ orbits' = orbits
             /\ satellites' = satellites
        /\ (EndOf(last') = StartOf(last') /\ Accepted(last'.req.precision)) =>
             last'.status = 200 ]_vars

\* a rejected scan with end before start, over stores with satellites to
\* propagate
C2_Witness ==
  /\ IsScan(last)
  /\ DatesParse(last)
  /\ TdLess(EndOf(last), StartOf(last))
  /\ last.status = 400
  /\ Len(satellites) >= 2

\* C3: an absent step spec yields a step of one minute; digits followed by
\* ms, s, m, h or d with magnitude > 0 yield magnitude times the unit; every
\* other spec fails with the invalid-step error and the scan has no events.
C3_StepParsing ==
  (IsScan(last) /\ DatesParse(last) /\ ~ TdLess(EndOf(last), StartOf(last))) =>
    LET value == last.req.precision
    IN  IF value = None
        THEN /\ last.status = 200
             /\ last.step = [days |-> 0, seconds |-> 60, microseconds |-> 0]
        ELSE IF FitsPattern(value) /\ Magnitude(value) > 0
        THEN /\ last.status = 200
             /\ last.step = ExpectedStep(value)
        ELSE /\ InvalidRange(last)
             /\ last.propagations = 0

\* a scan with a step given in milliseconds
C3_Witness ==
  /\ IsScan(last)
  /\ last.req.precision = << "5", "m", "s" >>
  /\ last.status = 200
  /\ last.step = [days |-> 0, seconds |-> 0, microseconds |-> 5000]
  /\ last.collisions # << >>

\* C4: the position query for an existing satellite fails with the temporal
\* error exactly when the timestamp is strictly before the launch epoch;
\* for every timestamp >= the launch epoch with a resolvable orbit it
\* returns a position.
C4_TemporalErrorExactlyBeforeLaunch ==
  (/\ IsPosition(last)
   /\ last.req.id \in Keys(satellites)
   /\ WellFormed(last.req.timestamp)) =>
    LET sat    == Get(satellites, last.req.id)
        ts     == ToUtc(last.req.timestamp)
        launch == ToUtc(sat.launch_date)
    IN  /\ (last.status = 400 /\ last.detail = "Timestamp before launch date")
             <=> TdLess(ts, launch)
        /\ (~ TdLess(ts, launch) /\ sat.orbit_id \in Keys(orbits)) =>
             (last.status = 200 /\ last.body # << >>)

Ready(t) ==
  {satellites[i].id : i \in {j \in 1..Len(satellites) :
     /\ \E o \in 1..Len(orbits) : orbits[o].id = satellites[j].orbit_id
     /\ TdLeq(ToUtc(satellites[j].launch_date), t)}}

\* C6: a satellite whose orbit does not resolve, or whose launch epoch is
\* later than grid instant t, is left out of the active set at t: the scan
\* does not fail because of it and no event at t names it; every satellite
\* with a resolved orbit and launch epoch <= t is in the active set at t.
C6_ActiveSet ==
  (/\ IsScan(last)
   /\ DatesParse(last)
   /\ ~ TdLess(EndOf(last), StartOf(last))
   /\ Accepted(last.req.precision)) =>
    /\ last.status = 200
    /\ Len(last.passes) = Len(last.time_grid)
    /\ \A k \in 1..Len(last.passes) :
         /\ Range(last.passes[k].active) = Ready(last.time_grid[k])
         /\ \A ev \in Range(last.passes[k].events) :
              {ev.satellite1, ev.satellite2} \subseteq Ready(last.time_grid[k])
    /\ \A c \in Range(last.collisions) :
         \E k \in 1..Len(last.passes) : c \in Range(last.passes[k].events)

\* a scan with events at an instant where one satellite has no orbit, and
\* an instant where a satellite with an orbit is not yet launched
C6_Witness ==
  /\ IsScan(last)
  /\ last.status = 200
  /\ \E k \in 1..Len(last.passes) :
       /\ last.passes[k].events # << >>
       /\ \E i \in 1..Len(satellites) : satellites[i].orbit_id \notin Keys(orbits)
  /\ \E k \in 1..Len(last.passes), i \in 1..Len(satellites) :
       /\ satellites[i].orbit_id \in Keys(orbits)
       /\ TdLess(last.time_grid[k], ToUtc(satellites[i].launch_date))
       /\ satellites[i].id \notin Range(last.passes[k].active)

\* C7: every event has satellite1 < satellite2, and an instant whose active
\* set has 0 or 1 satellites contributes no event.
C7_PairsAscending ==
  IsScan(last) =>
    /\ \A c \in Range(last.collisions) :
         /\ c.satellite1 < c.satellite2
         /\ \E k \in 1..Len(last.passes) :
              Len(last.passes[k].active) >= 2 /\ c \in Range(last.passes[k].events)
    /\ \A k \in 1..Len(last.passes) :
         /\ Len(last.passes[k].active) < 2 => last.passes[k].events = << >>
         /\ \A ev \in Range(last.passes[k].events) : ev.satellite1 < ev.satellite2

\* a scan that compares the larger identifier first at one instant and has
\* a single active satellite at another
C7_Witness ==
  /\ IsScan(last)
  /\ \E k \in 1..Len(last.passes) :
       /\ last.passes[k].events # << >>
       /\ last.passes[k].active[1] > last.passes[k].active[2]
  /\ \E k \in 1..Len(last.passes) : Len(last.passes[k].active) = 1

\* (time, satellite1, satellite2) of a strictly before that of b
KeyBefore(a, b) ==
  \/ StrLess(a.time, b.time)
  \/ /\ a.time = b.time
     /\ \/ a.satellite1 < b.satellite1
        \/ a.satellite1 = b.satellite1 /\ a.satellite2 < b.satellite2

\* C8: the events are in strictly ascending order of (time, satellite1,
\* satellite2); the string order of the times is the chronological order of
\* their grid instants; no key occurs twice, the same pair may occur at
\* several instants.
C8_SortedStrictly ==
  IsScan(last) =>
    /\ \A i \in 1..(Len(last.collisions) - 1) :
         KeyBefore(last.collisions[i], last.collisions[i + 1])
    /\ \A k, l \in 1..Len(last.passes) :
         TdLess(last.time_grid[k], last.time_grid[l]) =>
           \A a \in Range(last.passes[k].events), b \in Range(last.passes[l].events) :
             StrLess(a.time, b.time)
    /\ Len(last.collisions) = Len(Appended(last.passes, 1))
    /\ Range(last.collisions) = Range(Appended(last.passes, 1))

\* a scan with two events that tie on time and first identifier, and a pair
\* that occurs at two instants
C8_Witness ==
  /\ IsScan(last)
  /\ \E i, j \in 1..Len(last.collisions) :
       /\ last.collisions[i].time = last.collisions[j].time
       /\ last.collisions[i].satellite1 = last.collisions[j].satellite1
       /\ last.collisions[i].satellite2 < last.collisions[j].satellite2
  /\ \E i, j \in 1..Len(last.collisions) :
       /\ last.collisions[i].time # last.collisions[j].time
       /\ last.collisions[i].satellite1 = last.collisions[j].satellite1
       /\ last.collisions[i].satellite2 = last.collisions[j].satellite2

\* the geodetic position of stored satellite id at instant t
GeoAt(id, t) ==
  LET sat == Get(satellites, id)
  IN  _compute_satellite_ecef_and_geo(sat, Get(orbits, sat.orbit_id), t).geo

\* C9: every event carries the geodetic position, at the event's instant,
\* of satellite1, in every store state reached through the create, update
\* and delete operations.
C9_PositionOfFirst ==
  IsScan(last) =>
    /\ \A k \in 1..Len(last.passes) : \A ev \in Range(last.passes[k].events) :
         /\ ev.satellite1 \in Keys(satellites)
         /\ Get(satellites, ev.satellite1).orbit_id \in Keys(orbits)
         /\ ev.position = GeoAt(ev.satellite1, last.time_grid[k])
    /\ Range(last.collisions) = Range(Appended(last.passes, 1))

\* an event of two satellites that are at different positions
C9_Witness ==
  /\ IsScan(last)
  /\ last.collisions # << >>
  /\ \E k \in 1..Len(last.passes) : \E ev \in Range(last.passes[k].events) :
       /\ ev.position = GeoAt(ev.satellite1, last.time_grid[k])
       /\ ev.position # GeoAt(ev.satellite2, last.time_grid[k])

\* the collection with the satellites at places i and j exchanged
Swap(q, i, j) ==
  [k \in 1..Len(q) |-> IF k = i THEN q[j] ELSE IF k = j THEN q[i] ELSE q[k]]

Triples(c) ==
  [k \in 1..Len(c) |-> << c[k].satellite1, c[k].satellite2, c[k].time >>]

\* the same scan over the other collection
Rescan(sats) ==
  GetCollisions(sats, orbits, last.req.start_date, last.req.end_date,
                last.req.precision, StepOf, RoundedOf)

\* C10: two collections that differ only in the order in which two
\* satellites are iterated give the same sequence of (satellite1,
\* satellite2, time), identifiers ascending, each event at the same place.
C10_OrderIndependent ==
  IsScan(last) =>
    /\ \A c \in Range(last.collisions) : c.satellite1 < c.satellite2
    /\ \A i, j \in 1..Len(satellites) :
         Triples(Rescan(Swap(satellites, i, j)).collisions) = Triples(last.collisions)

\* a scan with events that the exchange of two satellites changes, in the
\* position an event carries
C10_Witness ==
  /\ IsScan(last)
  /\ last.collisions # << >>
  /\ \E i, j \in 1..Len(satellites) :
       Rescan(Swap(satellites, i, j)).collisions # last.collisions

\* stored satellites i and j are distinct, their orbits resolve to the same
\* definition, and they have the same launch epoch and initial longitude
Twins(i, j) ==
  /\ satellites[i].id # satellites[j].id
  /\ satellites[i].orbit_id \in Keys(orbits)
  /\ satellites[j].orbit_id \in Keys(orbits)
  /\ LET o1 == Get(orbits, satellites[i].orbit_id)
         o2 == Get(orbits, satellites[j].orbit_id)
     IN  /\ o1.orbital_altitude = o2.orbital_altitude
         /\ o1.inclination = o2.inclination
         /\ o1.raan = o2.raan
  /\ ToUtc(satellites[i].launch_date) = ToUtc(satellites[j].launch_date)
  /\ satellites[i].initial_longitude = satellites[j].initial_longitude

\* the scan reports the pair of stored satellites i and j at grid instant k
ReportedAt(i, j, k) ==
  LET id1 == satellites[i].id
      id2 == satellites[j].id
      lo  == IF id1 <= id2 THEN id1 ELSE id2
      hi  == IF id1 <= id2 THEN id2 ELSE id1
  IN  /\ \E ev \in Range(last.passes[k].events) :
           ev.satellite1 = lo /\ ev.satellite2 = hi
      /\ \E c \in Range(last.collisions) :
           /\ c.satellite1 = lo
           /\ c.satellite2 = hi
           /\ c.time = _format_utc(last.time_grid[k], last.step)

\* C11 as stated: two distinct satellites with the same orbit definition,
\* launch epoch and initial longitude are reported as a collision pair at
\* every grid instant of every scan.
C11_TwinsAtEveryInstant ==
  (IsScan(last) /\ last.status = 200) =>
    \A i, j \in 1..Len(satellites) :
      Twins(i, j) => \A k \in 1..Len(last.time_grid) : ReportedAt(i, j, k)

\* C11: two distinct satellites with the same orbit definition, launch
\* epoch and initial longitude are reported as a collision pair at every
\* grid instant of every scan that is not before their launch epoch, and at
\* no grid instant before it.
C11_TwinsOnceLaunched ==
  (IsScan(last) /\ last.status = 200) =>
    \A i, j \in 1..Len(satellites) :
      Twins(i, j) =>
        \A k \in 1..Len(last.time_grid) :
          ReportedAt(i, j, k)
            <=> TdLeq(ToUtc(satellites[i].launch_date), last.time_grid[k])

\* a scan over twins on two orbits of one definition, with a grid instant
\* before their launch, one at it and one after it
C11_Witness ==
  /\ IsScan(last)
  /\ last.status = 200
  /\ \E i, j \in 1..Len(satellites) :
       /\ Twins(i, j)
       /\ satellites[i].orbit_id # satellites[j].orbit_id
       /\ \E k \in 1..Len(last.time_grid) :
            /\ TdLess(last.time_grid[k], ToUtc(satellites[i].launch_date))
            /\ ~ ReportedAt(i, j, k)
       /\ \E k \in 1..Len(last.time_grid) :
            /\ last.time_grid[k] = ToUtc(satellites[i].launch_date)
            /\ ReportedAt(i, j, k)
       /\ \E k \in 1..Len(last.time_grid) :
            /\ TdLess(ToUtc(satellites[i].launch_date), last.time_grid[k])
            /\ ReportedAt(i, j, k)

\* the scan of the request over the stores of its entry
AtEntry(f) ==
  GetCollisions(f.entry.satellites, f.entry.orbits, f.req.start_date,
                f.req.end_date, f.req.precision, StepOf, RoundedOf)

\* C12: a collision scan is read-only and snapshot-consistent: from its
\* entry to its return the stores are what they were at its entry, every
\* pass sees the satellites and orbits of the entry, and the reply is the
\* result computed from the stores of the entry, whatever create, update
\* and delete requests are waiting to be served.
C12_ScanSnapshot ==
  /\ running # Idle =>
       /\ satellites = running.entry.satellites
       /\ orbits = running.entry.orbits
       /\ \A k \in 1..Len(running.passes) :
            running.passes[k] = AtEntry(running).passes[k]
  /\ (IsScan(last) /\ last.status = 200) =>
       /\ satellites = last.entry.satellites
       /\ orbits = last.entry.orbits
       /\ last.passes = AtEntry(last).passes
       /\ last.collisions = AtEntry(last).collisions

\* a scan has returned events of several instants and the next scan is
\* between two passes over stored satellites
C12_Witness ==
  /\ IsScan(last)
  /\ last.status = 200
  /\ \E k, l \in 1..Len(last.passes) :
       k # l /\ last.passes[k].events # << >> /\ last.passes[l].events # << >>
  /\ running # Idle
  /\ Len(running.passes) > 0
  /\ Len(running.passes) < Len(running.time_grid)
  /\ Len(satellites) >= 2

\* every stored satellite's orbit_id is the key of a stored orbit
Resolved(sats, orbs) == \A i \in 1..Len(sats) : sats[i].orbit_id \in Keys(orbs)

\* the request was refused and the stores are as they were
Refused(codes) ==
  /\ last'.status \in codes
  /\ UNCHANGED << orbits, satellites >>

\* C13: after any sequence of orbit and satellite create, update and delete
\* requests every stored satellite's orbit_id refers to a stored orbit:
\* creating or updating a satellite with a missing orbit is refused,
\* deleting an orbit that a satellite references is refused with 409 and
\* both stores stay unchanged, and neither the position query nor the scan
\* meets a satellite whose orbit does not resolve.
C13_OrbitsResolve ==
  /\ [](/\ Resolved(satellites, orbits)
        /\ IsPosition(last) => last.detail # "Orbit not found"
        /\ IsScan(last) =>
             \A k \in 1..Len(last.passes) :
               Range(last.passes[k].active) =
                 {satellites[i].id : i \in {j \in 1..Len(satellites) :
                    TdLeq(ToUtc(satellites[j].launch_date), last.time_grid[k])}})
  /\ [][/\ \A body \in SatelliteBodies :
             (create_satellite(body) /\ body.orbit_id \notin Keys(orbits))
               => Refused({400, 409})
        /\ \A id \in 1..MaxSatId, body \in SatelliteBodies :
             (update_satellite(id, body) /\ body.orbit_id \notin Keys(orbits))
               => Refused({400, 404, 409})
        /\ \A id \in 1..MaxOrbitId :
             (/\ delete_orbit(id)
              /\ id \in Keys(orbits)
              /\ \E i \in 1..Len(satellites) : satellites[i].orbit_id = id)
               => (Refused({409}) /\ last'.detail = "Orbit in use by satellites")
        /\ \A id \in Keys(orbits) \ Keys(orbits') :
             \A i \in 1..Len(satellites) : satellites[i].orbit_id # id]_vars

\* the deletion of an orbit that a stored satellite references has been
\* refused, with another orbit stored that no satellite references
C13_Witness ==
  /\ last.req.op = "delete_orbit"
  /\ last.status = 409
  /\ \E i \in 1..Len(satellites) : satellites[i].orbit_id = last.req.id
  /\ \E o \in Keys(orbits) : \A i \in 1..Len(satellites) : satellites[i].orbit_id # o

\* C14: identifiers are never reused: a create never assigns to a new
\* satellite (or orbit) a key that was assigned before, to a satellite (or
\* orbit) that has since been deleted.
C14_IdsNeverReused ==
  [][/\ (Keys(orbits') \ Keys(orbits)) \cap issued.orbits = {}
     /\ (Keys(satellites') \ Keys(satellites)) \cap issued.satellites = {}]_vars

\* the instant of January 1970 that a time string denotes:
\* 1970-01-DDTHH:MM:SSZ or 1970-01-DDTHH:MM:SS.mmmZ
Denoted(text) ==
  LET Field(a, b) == ParseInt(SubSeq(text, a, b))
      millis == IF Len(text) = 24 THEN Field(21, 23) ELSE 0
  IN  [days         |-> Field(9, 10) - 1,
       seconds      |-> Field(12, 13) * 3600 + Field(15, 16) * 60 + Field(18, 19),
       microseconds |-> millis * 1000]

\* C15: for every step accepted by the step parser the time string of an
\* event denotes exactly the grid instant at which the pair was compared:
\* with milliseconds when the step is below one second, with seconds
\* otherwise, and in neither case is a non-zero part of the instant dropped
\* (steps such as 1500ms included).
C15_TimeDenotesInstant ==
  (IsScan(last) /\ last.status = 200) =>
    \A k \in 1..Len(last.passes) : \A ev \in Range(last.passes[k].events) :
      /\ Len(ev.time) = (IF TdLess(last.step, timedelta_seconds(1)) THEN 24 ELSE 20)
      /\ Denoted(ev.time) = last.time_grid[k]

====
